---- MODULE Spec2Model ----
(***************************************************************************)
(* Model of parts of InputPlumber:                                         *)
(*   - the DBus target device (src/input/target/dbus.rs): the axis         *)
(*     threshold state machine of DBusDevice::translate_event;             *)
(*   - the Legion Go driver (src/drivers/lego/driver.rs): Driver::poll,    *)
(*     the per-family state slots and Driver::translate_xinput.            *)
(*                                                                         *)
(*   - the run loop of the DBus target device: the command channel,        *)
(*     DBusDevice::run and DBusDevice::write_dbus_event;                   *)
(*   - the OrangePi Neo touchpad source (src/input/source/hidraw/          *)
(*     opineo.rs): the translation and normalization of touch events.      *)
(*                                                                         *)
(* Floating point values are carried as integers in hundredths: 0.35 is    *)
(* 35, 1.0 is 100, 0.0 is 0.  Only comparisons with the threshold and the  *)
(* two literals 0.0 and 1.0 are made on them.                              *)
(***************************************************************************)
EXTENDS Integers, Sequences, FiniteSets, TLC

VARIABLES
    \* ---- DBusDevice (dbus.rs) ----
    state,          \* DBusDevice.state: the four pressed flags
    translated,     \* the Vec<DBusEvent> returned by the last translate_event
    samples,        \* history: per derived event of the last call, what was done
    last_above,     \* history: per direction, was the last sample off the threshold above it
    last_emitted,   \* history: per direction, last value emitted by the threshold logic
    \* ---- lego Driver (driver.rs) ----
    dinputl_state, dinputr_state, keyboard_state, mouse_state,
    touchpad_state, xinput_state,
    events,         \* the Vec<Event> of the last poll / translate call
    result,         \* outcome of the last poll: "none", "ok", "err", "panic"
    old_state,      \* the value update_*_state returned in the last call
    family,         \* the family whose handler ran in the last call ("none" if none)
    polls,          \* number of polls made
    packet,         \* history: report id, declared size and bytes read of the last poll
    phase,          \* "driver" | "ready" | "done" (pure translate check)
    last_decoded,   \* history: per family, the report of its last successful decode
    \* ---- OrangePiNeoTouchpad (opineo.rs) ----
    side,           \* OrangePiNeoTouchpad.side
    touch_events,   \* the driver events of the last poll
    native_events,  \* the Vec<NativeEvent> returned by the last poll
    \* ---- DBusDevice::run and its channel (dbus.rs) ----
    dbus_path,      \* DBusDevice.dbus_path
    queue,          \* the commands in the channel (tx, rx), oldest first
    pc,             \* run: "new" (not called), "recv", "write", "done" (returned)
    pending,        \* the translated events of the command that are not yet written
    calls,          \* history: the signals emitted, each with its command and place
    run_result,     \* "running", or what run returned: "ok", "err"
    exit_on,        \* history: why the loop ended: "none", "Stop", "closed", "error"
    removal,        \* the task that removes the DBus interface was spawned
    clients,        \* number of TargetDeviceClient handles that are alive
    enqueued,       \* history: the commands sent, in the order of sending
    dequeued,       \* history: the numbers of the commands received, in order
    last_write      \* history: the last call of write_dbus_event and its result

dbusVars == <<state, translated, samples, last_above, last_emitted>>
legoVars == <<dinputl_state, dinputr_state, keyboard_state, mouse_state,
              touchpad_state, xinput_state, events, result, old_state,
              family, polls, packet, phase, last_decoded>>
opineoVars == <<side, touch_events, native_events>>
runVars == <<dbus_path, queue, pc, pending, calls, run_result, exit_on, removal,
             clients, enqueued, dequeued, last_write>>
vars == <<dbusVars, legoVars, opineoVars, runVars>>

\* Option<T>
None == [some |-> FALSE]
Some(v) == [some |-> TRUE, v |-> v]

(***************************************************************************)
(*                       DBusDevice::translate_event                       *)
(***************************************************************************)

\* The threshold for axis inputs to be considered "pressed" (0.35)
AXIS_THRESHOLD == 35

\* Longest list of derived events DBusEvent::from_native_event returns
MaxDerived == 1

Directions == {"Left", "Right", "Up", "Down"}
\* Magnitudes of axis-derived samples: below, at and above the threshold
Samples == {20, 35, 50}

Float(n) == [kind |-> "Float", f |-> n]

\* DBus events derived from a native event: direction events with a
\* magnitude, and an event of another action
DerivedEvents ==
    [action : Directions, value : {Float(m) : m \in Samples}]
        \cup {[action |-> "Guide", value |-> Float(100)]}

\* DBus events derived from a native event that is not a gamepad axis event
ButtonEvents ==
    {[action |-> "Guide", value |-> Float(100)],
     [action |-> "Left", value |-> Float(100)]}

RECURSIVE SeqsUpTo(_, _)
SeqsUpTo(S, n) ==
    IF n = 0 THEN {<<>>}
    ELSE LET shorter == SeqsUpTo(S, n - 1)
         IN shorter \cup {Append(s, e) : s \in {t \in shorter : Len(t) = n - 1}, e \in S}

\* State::default()
DefaultState ==
    [pressed_left |-> FALSE, pressed_right |-> FALSE,
     pressed_up |-> FALSE, pressed_down |-> FALSE]

\* DBusEvent::as_f64 of an event carrying a float
as_f64(event) == event.value.f

\* ThresholdArm with non-strict comparisons: a sample at the threshold crosses
ThresholdArm_NonStrict(pressed, event) ==
    IF pressed /\ as_f64(event) <= AXIS_THRESHOLD
    THEN [value |-> Float(0), pressed |-> FALSE, include |-> TRUE]
    ELSE IF ~pressed /\ as_f64(event) >= AXIS_THRESHOLD
    THEN [value |-> Float(100), pressed |-> TRUE, include |-> TRUE]
    ELSE [value |-> event.value, pressed |-> pressed, include |-> FALSE]

\* ThresholdArm whose release branch forgets to clear the pressed flag
ThresholdArm_KeepsFlag(pressed, event) ==
    IF pressed /\ as_f64(event) < AXIS_THRESHOLD
    THEN [value |-> Float(0), pressed |-> pressed, include |-> TRUE]
    ELSE IF ~pressed /\ as_f64(event) > AXIS_THRESHOLD
    THEN [value |-> Float(100), pressed |-> TRUE, include |-> TRUE]
    ELSE [value |-> event.value, pressed |-> pressed, include |-> FALSE]

\* ThresholdArm that thresholds every sample without looking at the flag
ThresholdArm_Naive(pressed, event) ==
    IF as_f64(event) < AXIS_THRESHOLD
    THEN [value |-> Float(0), pressed |-> FALSE, include |-> TRUE]
    ELSE IF as_f64(event) > AXIS_THRESHOLD
    THEN [value |-> Float(100), pressed |-> TRUE, include |-> TRUE]
    ELSE [value |-> event.value, pressed |-> pressed, include |-> FALSE]

\* One arm of the match on event.action: the if / else if / else on the
\* pressed flag of that direction
ThresholdArm(pressed, event) ==
    IF pressed /\ as_f64(event) < AXIS_THRESHOLD
    THEN [value |-> Float(0), pressed |-> FALSE, include |-> TRUE]
    ELSE IF ~pressed /\ as_f64(event) > AXIS_THRESHOLD
    THEN [value |-> Float(100), pressed |-> TRUE, include |-> TRUE]
    ELSE [value |-> event.value, pressed |-> pressed, include |-> FALSE]

\* IncludeEvent in which a press of Left or Right releases the opposite
\* direction
IncludeEvent_ClearsOpposite(st, event) ==
    CASE event.action = "Left" ->
            LET r == ThresholdArm(st.pressed_left, event)
            IN [state |-> [st EXCEPT !.pressed_left = r.pressed,
                                     !.pressed_right = IF r.pressed THEN FALSE ELSE @],
                include |-> r.include,
                event |-> [event EXCEPT !.value = r.value]]
      [] event.action = "Right" ->
            LET r == ThresholdArm(st.pressed_right, event)
            IN [state |-> [st EXCEPT !.pressed_right = r.pressed,
                                     !.pressed_left = IF r.pressed THEN FALSE ELSE @],
                include |-> r.include,
                event |-> [event EXCEPT !.value = r.value]]
      [] event.action = "Up" ->
            LET r == ThresholdArm(st.pressed_up, event)
            IN [state |-> [st EXCEPT !.pressed_up = r.pressed],
                include |-> r.include,
                event |-> [event EXCEPT !.value = r.value]]
      [] event.action = "Down" ->
            LET r == ThresholdArm(st.pressed_down, event)
            IN [state |-> [st EXCEPT !.pressed_down = r.pressed],
                include |-> r.include,
                event |-> [event EXCEPT !.value = r.value]]
      [] OTHER -> [state |-> st, include |-> TRUE, event |-> event]

\* The match on event.action for an event derived from an axis event
IncludeEvent(st, event) ==
    CASE event.action = "Left" ->
            LET r == ThresholdArm(st.pressed_left, event)
            IN [state |-> [st EXCEPT !.pressed_left = r.pressed],
                include |-> r.include,
                event |-> [event EXCEPT !.value = r.value]]
      [] event.action = "Right" ->
            LET r == ThresholdArm(st.pressed_right, event)
            IN [state |-> [st EXCEPT !.pressed_right = r.pressed],
                include |-> r.include,
                event |-> [event EXCEPT !.value = r.value]]
      [] event.action = "Up" ->
            LET r == ThresholdArm(st.pressed_up, event)
            IN [state |-> [st EXCEPT !.pressed_up = r.pressed],
                include |-> r.include,
                event |-> [event EXCEPT !.value = r.value]]
      [] event.action = "Down" ->
            LET r == ThresholdArm(st.pressed_down, event)
            IN [state |-> [st EXCEPT !.pressed_down = r.pressed],
                include |-> r.include,
                event |-> [event EXCEPT !.value = r.value]]
      [] OTHER -> [state |-> st, include |-> TRUE, event |-> event]

\* LoopBody that applies the threshold logic whatever the capability of the
\* native event
LoopBody_AlwaysThreshold(acc, is_axis_event, event) ==
    LET r == IncludeEvent(acc.state, event)
    IN [state |-> r.state,
        translated |-> IF r.include THEN Append(acc.translated, r.event)
                       ELSE acc.translated,
        samples |-> Append(acc.samples,
            [axis |-> is_axis_event, event |-> event, before |-> acc.state,
             after |-> r.state,
             out |-> IF r.include THEN <<r.event>> ELSE <<>>])]

\* The body of the for loop over the derived events
LoopBody(acc, is_axis_event, event) ==
    IF ~is_axis_event
    THEN [state |-> acc.state,
          translated |-> Append(acc.translated, event),
          samples |-> Append(acc.samples,
                [axis |-> FALSE, event |-> event, before |-> acc.state,
                 after |-> acc.state, out |-> <<event>>])]
    ELSE LET r == IncludeEvent(acc.state, event)
         IN [state |-> r.state,
             translated |-> IF r.include THEN Append(acc.translated, r.event)
                            ELSE acc.translated,
             samples |-> Append(acc.samples,
                [axis |-> TRUE, event |-> event, before |-> acc.state,
                 after |-> r.state,
                 out |-> IF r.include THEN <<r.event>> ELSE <<>>])]

RECURSIVE translate_loop(_, _, _)
translate_loop(acc, is_axis_event, derived) ==
    IF derived = <<>> THEN acc
    ELSE translate_loop(LoopBody(acc, is_axis_event, Head(derived)),
                        is_axis_event, Tail(derived))

\* DBusDevice::translate_event: the new state, the returned events (and the
\* per-event record of what the loop did)
translate_event(st, is_axis_event, derived) ==
    translate_loop([state |-> st, translated |-> <<>>, samples |-> <<>>],
                   is_axis_event, derived)

\* The pressed flag of a direction
Pressed(st, d) ==
    CASE d = "Left" -> st.pressed_left
      [] d = "Right" -> st.pressed_right
      [] d = "Up" -> st.pressed_up
      [] d = "Down" -> st.pressed_down

\* history: whether the last sample of direction d that was strictly above or
\* strictly below the threshold was strictly above it
RECURSIVE AboveAfter(_, _, _)
AboveAfter(above, d, smp) ==
    IF smp = <<>> THEN above
    ELSE LET s == Head(smp)
             m == s.event.value.f
             next == IF s.axis /\ s.event.action = d /\ m > AXIS_THRESHOLD THEN TRUE
                     ELSE IF s.axis /\ s.event.action = d /\ m < AXIS_THRESHOLD THEN FALSE
                     ELSE above
         IN AboveAfter(next, d, Tail(smp))

\* history: the last value the threshold logic emitted for direction d
RECURSIVE EmittedAfter(_, _, _)
EmittedAfter(last, d, smp) ==
    IF smp = <<>> THEN last
    ELSE LET s == Head(smp)
             next == IF s.axis /\ s.event.action = d /\ s.out # <<>>
                     THEN s.out[1].value.f ELSE last
         IN EmittedAfter(next, d, Tail(smp))

DBusInit ==
    /\ state = DefaultState
    /\ translated = <<>>
    /\ samples = <<>>
    /\ last_above = [d \in Directions |-> FALSE]
    /\ last_emitted = [d \in Directions |-> -1]

\* TargetCommand::WriteEvent(event): translate_event on a native event whose
\* derived events are `derived`
WriteEvent(is_axis_event, derived) ==
    \E r \in {translate_event(state, is_axis_event, derived)} :
       /\ state' = r.state
       /\ translated' = r.translated
       /\ samples' = r.samples
       /\ last_above' = [d \in Directions |-> AboveAfter(last_above[d], d, r.samples)]
       /\ last_emitted' = [d \in Directions |-> EmittedAfter(last_emitted[d], d, r.samples)]

(***************************************************************************)
(*                              lego Driver                                *)
(***************************************************************************)

DINPUT_PACKET_SIZE == 13
XINPUT_PACKET_SIZE == 60
KEYBOARD_PACKET_SIZE == 15
MOUSE_PACKET_SIZE == 8
TOUCHPAD_PACKET_SIZE == 21

DINPUTLEFT_DATA == 7
DINPUTRIGHT_DATA == 8
KEYBOARD_TOUCH_DATA == 1
MOUSEFPS_DATA == 2
MOUSE_DATA == 9
XINPUT_DATA == 4

\* Polls made in one run of the driver
MaxPolls == 3
\* Controls in which the previous report differs from the current one
MaxChanged == 2
\* Largest decoded content of a report of a family other than the gamepad's
MaxPayload == 1

\* Raw values of the 8-bit and 12-bit fields of a report
RawValues == {0, 1}

\* The fields of XInputDataReport that translate_xinput reads, all released
\* and at rest
ZeroReport ==
    [a |-> FALSE, x |-> FALSE, b |-> FALSE, y |-> FALSE, menu |-> FALSE,
     view |-> FALSE, legion |-> FALSE, quick_access |-> FALSE,
     down |-> FALSE, up |-> FALSE, left |-> FALSE, right |-> FALSE,
     lb |-> FALSE, rb |-> FALSE, d_trigger_l |-> FALSE,
     d_trigger_r |-> FALSE, m2 |-> FALSE, m3 |-> FALSE, y1 |-> FALSE,
     y2 |-> FALSE, y3 |-> FALSE, mouse_click |-> FALSE, thumb_l |-> FALSE,
     thumb_r |-> FALSE, touch_x |-> 0, touch_y |-> 0, l_stick_x |-> 0,
     l_stick_y |-> 0, r_stick_x |-> 0, r_stick_y |-> 0, a_trigger_l |-> 0,
     a_trigger_r |-> 0, mouse_z |-> 0, left_accel_0 |-> 0,
     left_accel_1 |-> 0, right_accel_0 |-> 0, right_accel_1 |-> 0]

\* The same, with every button held and every analog field off its rest value
BusyReport ==
    [a |-> TRUE, x |-> TRUE, b |-> TRUE, y |-> TRUE, menu |-> TRUE,
     view |-> TRUE, legion |-> TRUE, quick_access |-> TRUE, down |-> TRUE,
     up |-> TRUE, left |-> TRUE, right |-> TRUE, lb |-> TRUE, rb |-> TRUE,
     d_trigger_l |-> TRUE, d_trigger_r |-> TRUE, m2 |-> TRUE, m3 |-> TRUE,
     y1 |-> TRUE, y2 |-> TRUE, y3 |-> TRUE, mouse_click |-> TRUE,
     thumb_l |-> TRUE, thumb_r |-> TRUE, touch_x |-> 1, touch_y |-> 1,
     l_stick_x |-> 1, l_stick_y |-> 1, r_stick_x |-> 1, r_stick_y |-> 1,
     a_trigger_l |-> 1, a_trigger_r |-> 1, mouse_z |-> 1,
     left_accel_0 |-> 1, left_accel_1 |-> 1, right_accel_0 |-> 1,
     right_accel_1 |-> 1]

\* The boolean fields with the ButtonEvent each is reported as, in the order
\* translate_xinput tests them
ButtonTable ==
    <<
      <<"a", "A">>,
      <<"x", "X">>,
      <<"b", "B">>,
      <<"y", "Y">>,
      <<"menu", "Menu">>,
      <<"view", "View">>,
      <<"legion", "Legion">>,
      <<"quick_access", "QuickAccess">>,
      <<"down", "DPadDown">>,
      <<"up", "DPadUp">>,
      <<"left", "DPadLeft">>,
      <<"right", "DPadRight">>,
      <<"lb", "LB">>,
      <<"rb", "RB">>,
      <<"d_trigger_l", "DTriggerL">>,
      <<"d_trigger_r", "DTriggerR">>,
      <<"m2", "M2">>,
      <<"m3", "M3">>,
      <<"y1", "Y1">>,
      <<"y2", "Y2">>,
      <<"y3", "Y3">>,
      <<"mouse_click", "MouseClick">>,
      <<"thumb_l", "ThumbL">>,
      <<"thumb_r", "ThumbR">>
    >>

ButtonFieldSet == {ButtonTable[i][1] : i \in 1..Len(ButtonTable)}
\* Fields reported together as one event
PairFields ==
    {<<"touch_x", "touch_y">>, <<"l_stick_x", "l_stick_y">>,
     <<"r_stick_x", "r_stick_y">>, <<"left_accel_0", "left_accel_1">>,
     <<"right_accel_0", "right_accel_1">>}
ScalarFields == {"a_trigger_l", "a_trigger_r", "mouse_z"}

\* The reports that differ from r in exactly one control: one button, one
\* pair of fields, or one scalar field
OneControlChanged(r) ==
    {[r EXCEPT ![f] = ~r[f]] : f \in ButtonFieldSet}
    \cup UNION {{[r EXCEPT ![p[1]] = vx, ![p[2]] = vy] : vx, vy \in RawValues} \ {r}
                : p \in PairFields}
    \cup UNION {{[r EXCEPT ![f] = v] : v \in RawValues} \ {r} : f \in ScalarFields}

\* The reports that differ from r in at most k controls
RECURSIVE Near(_, _)
Near(r, k) ==
    IF k = 0 THEN {r}
    ELSE LET closer == Near(r, k - 1)
         IN closer \cup UNION {OneControlChanged(c) : c \in closer}

Button(name, pressed) == [kind |-> "Button", name |-> name, pressed |-> pressed]
Axis(name, x, y) == [kind |-> "Axis", name |-> name, x |-> x, y |-> y]
Trigger(name, value) == [kind |-> "Trigger", name |-> name, value |-> value]
Accelerometer(name, x, y) == [kind |-> "Accelerometer", name |-> name, x |-> x, y |-> y]

\* ButtonIf reporting the value the field had before
ButtonIf_OldValue(changed, name, pressed) ==
    IF changed THEN <<Button(name, ~pressed)>> ELSE <<>>

\* ButtonIf that reports the field on every call
ButtonIf_Always(changed, name, pressed) == <<Button(name, pressed)>>

\* if state.f != old_state.f { events.push(Event::Button(ButtonEvent::N(
\*     BinaryInput { pressed: state.f }))) }
ButtonIf(changed, name, pressed) ==
    IF changed THEN <<Button(name, pressed)>> ELSE <<>>

\* Binary events
BinaryEvents(st, old) ==
       ButtonIf(st.a # old.a, "A", st.a)
    \o ButtonIf(st.x # old.x, "X", st.x)
    \o ButtonIf(st.b # old.b, "B", st.b)
    \o ButtonIf(st.y # old.y, "Y", st.y)
    \o ButtonIf(st.menu # old.menu, "Menu", st.menu)
    \o ButtonIf(st.view # old.view, "View", st.view)
    \o ButtonIf(st.legion # old.legion, "Legion", st.legion)
    \o ButtonIf(st.quick_access # old.quick_access, "QuickAccess", st.quick_access)
    \o ButtonIf(st.down # old.down, "DPadDown", st.down)
    \o ButtonIf(st.up # old.up, "DPadUp", st.up)
    \o ButtonIf(st.left # old.left, "DPadLeft", st.left)
    \o ButtonIf(st.right # old.right, "DPadRight", st.right)
    \o ButtonIf(st.lb # old.lb, "LB", st.lb)
    \o ButtonIf(st.rb # old.rb, "RB", st.rb)
    \o ButtonIf(st.d_trigger_l # old.d_trigger_l, "DTriggerL", st.d_trigger_l)
    \o ButtonIf(st.d_trigger_r # old.d_trigger_r, "DTriggerR", st.d_trigger_r)
    \o ButtonIf(st.m2 # old.m2, "M2", st.m2)
    \o ButtonIf(st.m3 # old.m3, "M3", st.m3)
    \o ButtonIf(st.y1 # old.y1, "Y1", st.y1)
    \o ButtonIf(st.y2 # old.y2, "Y2", st.y2)
    \o ButtonIf(st.y3 # old.y3, "Y3", st.y3)
    \o ButtonIf(st.mouse_click # old.mouse_click, "MouseClick", st.mouse_click)
    \o ButtonIf(st.thumb_l # old.thumb_l, "ThumbL", st.thumb_l)
    \o ButtonIf(st.thumb_r # old.thumb_r, "ThumbR", st.thumb_r)

\* PairChanged that compares the X component only
PairChanged_XOnly(x, y, old_x, old_y) == x # old_x

\* state.x != old_state.x || state.y != old_state.y
PairChanged(x, y, old_x, old_y) == x # old_x \/ y # old_y

\* Axis events
AxisEvents(st, old) ==
       (IF PairChanged(st.touch_x, st.touch_y, old.touch_x, old.touch_y)
        THEN <<Axis("Touchpad", st.touch_x, st.touch_y)>> ELSE <<>>)
    \o (IF PairChanged(st.l_stick_x, st.l_stick_y, old.l_stick_x, old.l_stick_y)
        THEN <<Axis("LStick", st.l_stick_x, st.l_stick_y)>> ELSE <<>>)
    \o (IF PairChanged(st.r_stick_x, st.r_stick_y, old.r_stick_x, old.r_stick_y)
        THEN <<Axis("RStick", st.r_stick_x, st.r_stick_y)>> ELSE <<>>)

\* TriggerEvents that reports the previous value of a trigger that changed
TriggerEvents_OldValue(st, old) ==
       (IF st.a_trigger_l # old.a_trigger_l
        THEN <<Trigger("ATriggerL", old.a_trigger_l)>> ELSE <<>>)
    \o (IF st.a_trigger_r # old.a_trigger_r
        THEN <<Trigger("ATriggerR", old.a_trigger_r)>> ELSE <<>>)
    \o (IF st.mouse_z # old.mouse_z
        THEN <<Trigger("MouseWheel", old.mouse_z)>> ELSE <<>>)

\* TriggerEvents that reports the mouse wheel on every call
TriggerEvents_WheelAlways(st, old) ==
       (IF st.a_trigger_l # old.a_trigger_l
        THEN <<Trigger("ATriggerL", st.a_trigger_l)>> ELSE <<>>)
    \o (IF st.a_trigger_r # old.a_trigger_r
        THEN <<Trigger("ATriggerR", st.a_trigger_r)>> ELSE <<>>)
    \o <<Trigger("MouseWheel", st.mouse_z)>>

\* Trigger events
TriggerEvents(st, old) ==
       (IF st.a_trigger_l # old.a_trigger_l
        THEN <<Trigger("ATriggerL", st.a_trigger_l)>> ELSE <<>>)
    \o (IF st.a_trigger_r # old.a_trigger_r
        THEN <<Trigger("ATriggerR", st.a_trigger_r)>> ELSE <<>>)
    \o (IF st.mouse_z # old.mouse_z
        THEN <<Trigger("MouseWheel", st.mouse_z)>> ELSE <<>>)

\* Accelerometer events
AccelerometerEvents(st) ==
    <<Accelerometer("LeftAccelerometer", st.left_accel_0, st.left_accel_1),
      Accelerometer("RightAccelerometer", st.right_accel_0, st.right_accel_1)>>

\* translate_xinput that diffs a first report against an all-released one
translate_xinput_FirstAgainstZero(cur, old_opt) ==
    IF ~cur.some THEN <<>>
    ELSE LET old == IF old_opt.some THEN old_opt.v ELSE ZeroReport
         IN BinaryEvents(cur.v, old) \o AxisEvents(cur.v, old)
              \o TriggerEvents(cur.v, old)
              \o (IF old_opt.some THEN AccelerometerEvents(cur.v) ELSE <<>>)

\* translate_xinput that reports the accelerometer samples first
translate_xinput_AccelFirst(cur, old_opt) ==
    IF ~cur.some THEN <<>>
    ELSE IF old_opt.some
    THEN AccelerometerEvents(cur.v) \o BinaryEvents(cur.v, old_opt.v)
           \o AxisEvents(cur.v, old_opt.v) \o TriggerEvents(cur.v, old_opt.v)
    ELSE <<>>

\* Driver::translate_xinput(&self, old_state), with cur = self.xinput_state
translate_xinput(cur, old_opt) ==
    IF ~cur.some THEN <<>>
    ELSE IF old_opt.some
    THEN BinaryEvents(cur.v, old_opt.v) \o AxisEvents(cur.v, old_opt.v)
           \o TriggerEvents(cur.v, old_opt.v) \o AccelerometerEvents(cur.v)
    ELSE <<>>

\* Driver::translate_dinputl, translate_dinputr, translate_keyboard,
\* translate_mouse, translate_touch: the body of `if let Some(old_state)` is
\* empty in each of them
translate_dinputl(cur, old_opt) == IF ~cur.some THEN <<>> ELSE <<>>
translate_dinputr(cur, old_opt) == IF ~cur.some THEN <<>> ELSE <<>>
translate_keyboard(cur, old_opt) == IF ~cur.some THEN <<>> ELSE <<>>
translate_mouse(cur, old_opt) == IF ~cur.some THEN <<>> ELSE <<>>
translate_touch(cur, old_opt) == IF ~cur.some THEN <<>> ELSE <<>>

\* The report families, one state slot each
Families == {"dinputl", "dinputr", "keyboard", "mouse", "touchpad", "xinput"}

\* Driver::new: every slot is None
LegoIdle ==
    /\ dinputl_state = None /\ dinputr_state = None /\ keyboard_state = None
    /\ mouse_state = None /\ touchpad_state = None /\ xinput_state = None
    /\ events = <<>> /\ result = "none" /\ old_state = None
    /\ family = "none" /\ polls = 0 /\ phase = "driver" /\ packet = None
    /\ last_decoded = [f \in Families |-> None]

slots == <<dinputl_state, dinputr_state, keyboard_state, mouse_state,
           touchpad_state, xinput_state>>

\* The decoded gamepad reports the device sends, and the decoded contents of
\* the other families' reports
XInputSamples == {ZeroReport, [ZeroReport EXCEPT !.a = TRUE], BusyReport}
Payloads == 0..MaxPayload

\* Report ids the device sends: the six the driver knows, and another one
ReportIds ==
    {DINPUTLEFT_DATA, DINPUTRIGHT_DATA, KEYBOARD_TOUCH_DATA, MOUSEFPS_DATA,
     MOUSE_DATA, XINPUT_DATA, 3}
\* Values of the declared size (byte 1 of the buffer)
DeclaredSizes ==
    {MOUSE_PACKET_SIZE, DINPUT_PACKET_SIZE, KEYBOARD_PACKET_SIZE,
     TOUCHPAD_PACKET_SIZE, XINPUT_PACKET_SIZE, XINPUT_PACKET_SIZE + 1, 255}
\* Numbers of bytes read_timeout returns into the 60 byte buffer
BytesRead ==
    {MOUSE_PACKET_SIZE, DINPUT_PACKET_SIZE, KEYBOARD_PACKET_SIZE,
     TOUCHPAD_PACKET_SIZE, XINPUT_PACKET_SIZE}

\* Failed that resets the slots of the driver
Failed_ResetsSlots(outcome) ==
    /\ result' = outcome
    /\ events' = <<>>
    /\ old_state' = None
    /\ family' = "none"
    /\ dinputl_state' = None /\ dinputr_state' = None /\ keyboard_state' = None
    /\ mouse_state' = None /\ touchpad_state' = None /\ xinput_state' = None
    /\ UNCHANGED last_decoded

\* What a poll that returns Err leaves behind: no handler ran
Failed(outcome) ==
    /\ result' = outcome
    /\ events' = <<>>
    /\ old_state' = None
    /\ family' = "none"
    /\ UNCHANGED <<slots, last_decoded>>

\* handle_dinputl_report: update_dinputl_state, then translate_dinputl
handle_dinputl_report(report) ==
    /\ old_state' = dinputl_state
    /\ dinputl_state' = Some(report)
    /\ events' = translate_dinputl(dinputl_state', old_state')
    /\ result' = "ok" /\ family' = "dinputl"
    /\ last_decoded' = [last_decoded EXCEPT !["dinputl"] = Some(report)]
    /\ UNCHANGED <<dinputr_state, keyboard_state, mouse_state, touchpad_state,
                   xinput_state>>

\* handle_dinputr_report: update_dinputr_state, then translate_dinputr
handle_dinputr_report(report) ==
    /\ old_state' = dinputr_state
    /\ dinputr_state' = Some(report)
    /\ events' = translate_dinputr(dinputr_state', old_state')
    /\ result' = "ok" /\ family' = "dinputr"
    /\ last_decoded' = [last_decoded EXCEPT !["dinputr"] = Some(report)]
    /\ UNCHANGED <<dinputl_state, keyboard_state, mouse_state, touchpad_state,
                   xinput_state>>

\* handle_keyboard_report: update_keyboard_state, then translate_keyboard
handle_keyboard_report(report) ==
    /\ old_state' = keyboard_state
    /\ keyboard_state' = Some(report)
    /\ events' = translate_keyboard(keyboard_state', old_state')
    /\ result' = "ok" /\ family' = "keyboard"
    /\ last_decoded' = [last_decoded EXCEPT !["keyboard"] = Some(report)]
    /\ UNCHANGED <<dinputl_state, dinputr_state, mouse_state, touchpad_state,
                   xinput_state>>

\* handle_mouseinput_report: update_mouseinput_state, then translate_mouse
handle_mouseinput_report(report) ==
    /\ old_state' = mouse_state
    /\ mouse_state' = Some(report)
    /\ events' = translate_mouse(mouse_state', old_state')
    /\ result' = "ok" /\ family' = "mouse"
    /\ last_decoded' = [last_decoded EXCEPT !["mouse"] = Some(report)]
    /\ UNCHANGED <<dinputl_state, dinputr_state, keyboard_state, touchpad_state,
                   xinput_state>>

\* handle_touchinput_report: update_touchpad_state, then translate_touch
handle_touchinput_report(report) ==
    /\ old_state' = touchpad_state
    /\ touchpad_state' = Some(report)
    /\ events' = translate_touch(touchpad_state', old_state')
    /\ result' = "ok" /\ family' = "touchpad"
    /\ last_decoded' = [last_decoded EXCEPT !["touchpad"] = Some(report)]
    /\ UNCHANGED <<dinputl_state, dinputr_state, keyboard_state, mouse_state,
                   xinput_state>>

\* handle_xinput_report whose update keeps a report that is already stored
handle_xinput_report_KeepsFirst(report) ==
    /\ old_state' = xinput_state
    /\ xinput_state' = (IF xinput_state.some THEN xinput_state ELSE Some(report))
    /\ events' = translate_xinput(xinput_state', old_state')
    /\ result' = "ok" /\ family' = "xinput"
    /\ last_decoded' = [last_decoded EXCEPT !["xinput"] = Some(report)]
    /\ UNCHANGED <<dinputl_state, dinputr_state, keyboard_state, mouse_state,
                   touchpad_state>>

\* handle_xinput_report: update_xinput_state, then translate_xinput
handle_xinput_report(report) ==
    /\ old_state' = xinput_state
    /\ xinput_state' = Some(report)
    /\ events' = translate_xinput(xinput_state', old_state')
    /\ result' = "ok" /\ family' = "xinput"
    /\ last_decoded' = [last_decoded EXCEPT !["xinput"] = Some(report)]
    /\ UNCHANGED <<dinputl_state, dinputr_state, keyboard_state, mouse_state,
                   touchpad_state>>

\* The size test of a match arm of poll
SizeMismatch(report_size, bytes_read, expected) ==
    report_size # expected \/ bytes_read # expected

\* The match on report_id in poll
MatchReportId(report_id, report_size, bytes_read) ==
    CASE report_id = DINPUTLEFT_DATA ->
            IF SizeMismatch(report_size, bytes_read, DINPUT_PACKET_SIZE)
            THEN Failed("err")
            ELSE \E report \in Payloads : handle_dinputl_report(report)
      [] report_id = DINPUTRIGHT_DATA ->
            IF SizeMismatch(report_size, bytes_read, DINPUT_PACKET_SIZE)
            THEN Failed("err")
            ELSE \E report \in Payloads : handle_dinputr_report(report)
      [] report_id = KEYBOARD_TOUCH_DATA ->
            IF SizeMismatch(report_size, bytes_read, KEYBOARD_PACKET_SIZE)
            THEN IF SizeMismatch(report_size, bytes_read, TOUCHPAD_PACKET_SIZE)
                 THEN Failed("err")
                 ELSE \E report \in Payloads : handle_touchinput_report(report)
            ELSE \E report \in Payloads : handle_keyboard_report(report)
      [] report_id \in {MOUSE_DATA, MOUSEFPS_DATA} ->
            IF SizeMismatch(report_size, bytes_read, MOUSE_PACKET_SIZE)
            THEN Failed("err")
            ELSE \E report \in Payloads : handle_mouseinput_report(report)
      [] report_id = XINPUT_DATA ->
            IF SizeMismatch(report_size, bytes_read, XINPUT_PACKET_SIZE)
            THEN Failed("err")
            ELSE \E report \in XInputSamples : handle_xinput_report(report)
      [] OTHER ->
            /\ result' = "ok" /\ events' = <<>>
            /\ old_state' = None /\ family' = "none"
            /\ UNCHANGED <<slots, last_decoded>>

\* Driver::poll on a buffer with the given report id and declared size, of
\* which bytes_read bytes were read. The slice &buf[..report_size] is taken
\* of a buffer of XINPUT_PACKET_SIZE bytes before the match: it panics on a
\* larger declared size.
Poll(report_id, report_size, bytes_read) ==
    /\ phase = "driver" /\ result # "panic" /\ polls < MaxPolls
    /\ polls' = polls + 1
    /\ phase' = phase
    /\ packet' = Some([report_id |-> report_id, report_size |-> report_size,
                       bytes_read |-> bytes_read])
    /\ IF report_size > XINPUT_PACKET_SIZE
       THEN Failed("panic")
       ELSE MatchReportId(report_id, report_size, bytes_read)

\* Driver::poll when read_timeout fails: the error is returned by `?`
PollReadError ==
    /\ phase = "driver" /\ result # "panic" /\ polls < MaxPolls
    /\ polls' = polls + 1
    /\ phase' = phase
    /\ packet' = None
    /\ Failed("err")

\* translate_xinput applied to a stored report and a previous report
Translate ==
    /\ phase = "ready"
    /\ phase' = "done"
    /\ events' = translate_xinput(xinput_state, old_state)
    /\ UNCHANGED <<slots, result, old_state, family, polls, packet, last_decoded>>

(***************************************************************************)
(*                   OrangePiNeoTouchpad (hidraw/opineo.rs)                *)
(***************************************************************************)

\* driver::PAD_X_MAX, driver::PAD_Y_MAX of the OrangePi Neo driver
PAD_X_MAX == 1024
PAD_Y_MAX == 1024

\* enum TouchpadSide
TouchpadSides == {"Unknown", "Left", "Right"}

\* Raw coordinates of a touch event: the origin, the middle and the maximum
\* of the pad, and values beyond the maximum that the report field can carry
RawCoords == {0, 512, PAD_X_MAX, PAD_X_MAX + 1, 65535}

\* event::TouchAxisInput values the driver reports
TouchInputs ==
    [index : {0, 1}, is_touching : BOOLEAN, x : RawCoords, y : RawCoords]

\* The Vec<event::Event> a poll of the driver returns
TouchEventLists == {<<>>} \cup {<<e>> : e \in TouchInputs}

\* An f64 that is the quotient of two integers
Ratio(num, den) == [num |-> num, den |-> den]

\* The f64 lies within [0.0, 1.0]
InUnitRange(q) == 0 <= q.num /\ q.num <= q.den

\* Two f64 values are equal (every denominator is positive)
SameFloat(a, b) == a.num * b.den = b.num * a.den

\* normalize_unsigned_value: raw_value / max
normalize_unsigned_value(raw_value, max) == Ratio(raw_value, max)

\* normalize_axis_value that reports the origin for an event that is not
\* touching
normalize_axis_value_ZeroWhenUp(event) ==
    [kind |-> "Touch",
     index |-> event.index,
     is_touching |-> event.is_touching,
     pressure |-> Some(Ratio(1, 1)),
     x |-> IF ~event.is_touching THEN Some(Ratio(0, PAD_X_MAX))
           ELSE Some(normalize_unsigned_value(event.x, PAD_X_MAX)),
     y |-> IF ~event.is_touching THEN Some(Ratio(0, PAD_Y_MAX))
           ELSE Some(normalize_unsigned_value(event.y, PAD_Y_MAX))]

\* normalize_axis_value: the InputValue::Touch of a touch event
normalize_axis_value(event) ==
    LET x == normalize_unsigned_value(event.x, PAD_X_MAX)
        y == normalize_unsigned_value(event.y, PAD_Y_MAX)
    IN [kind |-> "Touch",
        index |-> event.index,
        is_touching |-> event.is_touching,
        pressure |-> Some(Ratio(1, 1)),
        x |-> IF ~event.is_touching THEN None ELSE Some(x),
        y |-> IF ~event.is_touching THEN None ELSE Some(y)]

\* NativeEvent::new
NativeEvent(capability, value) == [capability |-> capability, value |-> value]

\* translate_event of opineo.rs: the native event of a driver event
opineo_translate_event(event, touchpad_side) ==
    CASE touchpad_side = "Unknown" ->
            NativeEvent("NotImplemented", [kind |-> "Bool", b |-> FALSE])
      [] touchpad_side = "Left" ->
            NativeEvent("Touchpad.LeftPad.Motion", normalize_axis_value(event))
      [] touchpad_side = "Right" ->
            NativeEvent("Touchpad.RightPad.Motion", normalize_axis_value(event))

\* translate_events: every driver event translated, in order
translate_events(evts, touchpad_side) ==
    [i \in 1..Len(evts) |-> opineo_translate_event(evts[i], touchpad_side)]

\* CAPABILITIES: the capabilities the OrangePi Neo touchpad implements
CAPABILITIES == <<"Touchpad.LeftPad.Motion", "Touchpad.RightPad.Motion">>

\* OrangePiNeoTouchpad::get_capabilities
get_capabilities == CAPABILITIES

\* No touchpad source is in use
OpineoIdle ==
    side = "Unknown" /\ touch_events = <<>> /\ native_events = <<>>

\* OrangePiNeoTouchpad::new: the side is taken from the device name
OpineoNew ==
    side \in TouchpadSides /\ touch_events = <<>> /\ native_events = <<>>

\* OrangePiNeoTouchpad::poll when the driver returns the events evts
OpineoPoll(evts) ==
    /\ touch_events' = evts
    /\ native_events' = translate_events(evts, side)
    /\ UNCHANGED side

(***************************************************************************)
(*            DBusDevice::run, write_dbus_event and the queue              *)
(***************************************************************************)

\* Commands the channel of the model holds: mpsc::channel(BUFFER_SIZE) with
\* BUFFER_SIZE = 2048 in the source
QueueCapacity == 2

\* Commands the clients send in a behaviour
MaxSent == QueueCapacity + 1

\* InputValue::Bool, and a value of a kind that write_dbus_event does not
\* name (its `_` arm)
BoolValue(b) == [kind |-> "Bool", b |-> b]
Vector2Value == [kind |-> "Vector2"]

\* InputValue::Touch of a lifted finger: the coordinates are absent
TouchUpValue ==
    [kind |-> "Touch", index |-> 0, is_touching |-> FALSE,
     pressure |-> None, x |-> None, y |-> None]

\* InputValue::Touch of a finger on the pad
TouchDownValue ==
    [kind |-> "Touch", index |-> 1, is_touching |-> TRUE,
     pressure |-> Some(Ratio(1, 2)), x |-> Some(Ratio(512, PAD_X_MAX)),
     y |-> Some(Ratio(0, PAD_Y_MAX))]

\* InputValue::Touch of a lifted finger that carries the coordinates
\* (0.0, 0.0) and the pressure 1.0
TouchUpZeroValue ==
    [kind |-> "Touch", index |-> 0, is_touching |-> FALSE,
     pressure |-> Some(Ratio(1, 1)), x |-> Some(Ratio(0, PAD_X_MAX)),
     y |-> Some(Ratio(0, PAD_Y_MAX))]

\* InputValue::Touch with only the x coordinate absent
TouchPartialValue ==
    [kind |-> "Touch", index |-> 1, is_touching |-> FALSE,
     pressure |-> Some(Ratio(1, 2)), x |-> None,
     y |-> Some(Ratio(512, PAD_Y_MAX))]

DBusEvent(action, value) == [action |-> action, value |-> value]

\* TargetCommand::WriteEvent(event), given by what the event is translated
\* from: whether it is a gamepad axis event and its derived DBus events
WriteEventCommand(is_axis_event, derived) ==
    [type |-> "WriteEvent", is_axis_event |-> is_axis_event, derived |-> derived]

\* The commands the clients send
RunCommands ==
    {WriteEventCommand(TRUE, <<DBusEvent("Left", Float(50)), DBusEvent("Up", Float(50))>>),
     WriteEventCommand(TRUE, <<DBusEvent("Left", Float(20))>>),
     WriteEventCommand(FALSE, <<DBusEvent("None", BoolValue(FALSE)),
                                DBusEvent("Guide", BoolValue(TRUE))>>),
     WriteEventCommand(FALSE, <<DBusEvent("Touch", TouchUpValue),
                                DBusEvent("Quick", BoolValue(FALSE))>>),
     WriteEventCommand(FALSE, <<DBusEvent("Touch", TouchDownValue)>>),
     WriteEventCommand(FALSE, <<DBusEvent("Touch", TouchUpZeroValue),
                                DBusEvent("Touch", TouchPartialValue)>>),
     WriteEventCommand(FALSE, <<DBusEvent("Guide", Vector2Value)>>),
     [type |-> "GetType"],
     [type |-> "Stop"]}

\* Where an emission can fail: the lookup of the interface at the path, the
\* sending of the signal
Faults == {"none", "interface", "signal"}

\* Option::unwrap_or
unwrap_or(opt, default) == IF opt.some THEN opt.v ELSE default

\* TargetDBusInterface::input_event(ctx, action, value)
input_event(action, value) ==
    [signal |-> "input_event", action |-> action, value |-> value]

\* TargetDBusInterface::touch_event(ctx, action, index, is_touching,
\* pressure, x, y)
touch_event(action, index, is_touching, pressure, x, y) ==
    [signal |-> "touch_event", action |-> action, index |-> index,
     is_touching |-> is_touching, pressure |-> pressure, x |-> x, y |-> y]

\* The match on event.value with the defaults of the touch arm exchanged:
\* 0.0 for an absent pressure, 1.0 for an absent coordinate
SignalOf_SwapsDefaults(event) ==
    CASE event.value.kind = "Bool" ->
            <<input_event(event.action, IF event.value.b THEN 100 ELSE 0)>>
      [] event.value.kind = "Float" ->
            <<input_event(event.action, event.value.f)>>
      [] event.value.kind = "Touch" ->
            <<touch_event(event.action, event.value.index, event.value.is_touching,
                          unwrap_or(event.value.pressure, Ratio(0, 1)),
                          unwrap_or(event.value.x, Ratio(1, 1)),
                          unwrap_or(event.value.y, Ratio(1, 1)))>>
      [] OTHER -> <<>>

\* The match on event.value of write_dbus_event: the signal to send, if any
SignalOf(event) ==
    CASE event.value.kind = "Bool" ->
            <<input_event(event.action, IF event.value.b THEN 100 ELSE 0)>>
      [] event.value.kind = "Float" ->
            <<input_event(event.action, event.value.f)>>
      [] event.value.kind = "Touch" ->
            <<touch_event(event.action, event.value.index, event.value.is_touching,
                          unwrap_or(event.value.pressure, Ratio(1, 1)),
                          unwrap_or(event.value.x, Ratio(0, 1)),
                          unwrap_or(event.value.y, Ratio(0, 1)))>>
      [] OTHER -> <<>>

\* write_dbus_event that looks for the DBus path before it looks at the
\* action
write_dbus_event_PathFirst(event, path, fault) ==
    IF ~path.some THEN [outcome |-> "err", emitted |-> <<>>]
    ELSE IF event.action = "None" THEN [outcome |-> "ok", emitted |-> <<>>]
    ELSE IF fault = "interface" THEN [outcome |-> "err", emitted |-> <<>>]
    ELSE IF SignalOf(event) # <<>> /\ fault = "signal"
    THEN [outcome |-> "err", emitted |-> <<>>]
    ELSE [outcome |-> "ok", emitted |-> SignalOf(event)]

\* write_dbus_event that skips an event when there is no DBus path
write_dbus_event_SkipsWithoutPath(event, path, fault) ==
    IF event.action = "None" THEN [outcome |-> "ok", emitted |-> <<>>]
    ELSE IF ~path.some THEN [outcome |-> "ok", emitted |-> <<>>]
    ELSE IF fault = "interface" THEN [outcome |-> "err", emitted |-> <<>>]
    ELSE IF SignalOf(event) # <<>> /\ fault = "signal"
    THEN [outcome |-> "err", emitted |-> <<>>]
    ELSE [outcome |-> "ok", emitted |-> SignalOf(event)]

\* DBusDevice::write_dbus_event: the result and the signals that went out
write_dbus_event(event, path, fault) ==
    IF event.action = "None" THEN [outcome |-> "ok", emitted |-> <<>>]
    ELSE IF ~path.some THEN [outcome |-> "err", emitted |-> <<>>]
    ELSE IF fault = "interface" THEN [outcome |-> "err", emitted |-> <<>>]
    ELSE IF SignalOf(event) # <<>> /\ fault = "signal"
    THEN [outcome |-> "err", emitted |-> <<>>]
    ELSE [outcome |-> "ok", emitted |-> SignalOf(event)]

\* DBusDevice::new: no path, an empty channel, one client handle taken by
\* client(); run has not been called
RunNew ==
    /\ dbus_path = None /\ queue = <<>> /\ pc = "new" /\ pending = <<>>
    /\ calls = <<>> /\ run_result = "running" /\ exit_on = "none"
    /\ removal = FALSE /\ clients = 1 /\ enqueued = <<>> /\ dequeued = <<>>
    /\ last_write = None

\* Senders of the channel counted as clients only
SenderCount_ClientsOnly == clients

\* Senders of the channel that are alive: the client handles and the tx
\* field of the device itself
SenderCount == clients + 1

\* rx.recv() that takes the newest command of the channel
Dequeue_Newest(q) == [command |-> q[Len(q)], rest |-> SubSeq(q, 1, Len(q) - 1)]

\* rx.recv() on a channel that holds commands
Dequeue(q) == [command |-> Head(q), rest |-> Tail(q)]

\* listen_on_dbus(path), called before run
ListenOnDBus ==
    /\ pc = "new" /\ ~dbus_path.some
    /\ dbus_path' = Some("path")
    /\ UNCHANGED <<queue, pc, pending, calls, run_result, exit_on, removal,
                   clients, enqueued, dequeued, last_write, dbusVars>>

\* run is called
Run ==
    /\ pc = "new"
    /\ pc' = "recv"
    /\ UNCHANGED <<dbus_path, queue, pending, calls, run_result, exit_on, removal,
                   clients, enqueued, dequeued, last_write, dbusVars>>

\* A send that completes whatever the channel holds
Enqueue_Unbounded(command) ==
    /\ clients > 0 /\ Len(enqueued) < MaxSent
    /\ \E c \in {[command |-> command, seq |-> Len(enqueued) + 1]} :
          queue' = Append(queue, c) /\ enqueued' = Append(enqueued, c)
    /\ UNCHANGED <<dbus_path, pc, pending, calls, run_result, exit_on, removal,
                   clients, dequeued, last_write, dbusVars>>

\* A client sends a command: tx.send(command).await completes when the
\* channel has room
Enqueue(command) ==
    /\ clients > 0 /\ Len(enqueued) < MaxSent
    /\ Len(queue) < QueueCapacity
    /\ \E c \in {[command |-> command, seq |-> Len(enqueued) + 1]} :
          queue' = Append(queue, c) /\ enqueued' = Append(enqueued, c)
    /\ UNCHANGED <<dbus_path, pc, pending, calls, run_result, exit_on, removal,
                   clients, dequeued, last_write, dbusVars>>

\* A client handle is dropped
DropClient ==
    /\ clients > 0
    /\ clients' = clients - 1
    /\ UNCHANGED <<dbus_path, queue, pc, pending, calls, run_result, exit_on,
                   removal, enqueued, dequeued, last_write, dbusVars>>

\* The end of the loop that does not remove the DBus interface
Break_NoRemoval(reason) ==
    /\ pc' = "done" /\ run_result' = "ok" /\ exit_on' = reason
    /\ removal' = FALSE
    /\ UNCHANGED <<pending, dbusVars>>

\* The loop has ended: the removal of the interface is spawned if there is a
\* path, and run returns Ok
Break(reason) ==
    /\ pc' = "done" /\ run_result' = "ok" /\ exit_on' = reason
    /\ removal' = dbus_path.some
    /\ UNCHANGED <<pending, dbusVars>>

\* The match on the command received
MatchCommand(command) ==
    CASE command.type = "WriteEvent" ->
            /\ WriteEvent(command.is_axis_event, command.derived)
            /\ pending' = translated'
            /\ pc' = (IF translated' = <<>> THEN "recv" ELSE "write")
            /\ UNCHANGED <<run_result, exit_on, removal>>
      [] command.type = "Stop" -> Break("Stop")
      [] OTHER ->
            /\ pc' = "recv"
            /\ UNCHANGED <<pending, run_result, exit_on, removal, dbusVars>>

\* while let Some(command) = self.rx.recv().await: a command is taken from
\* the channel; recv returns None when the channel is empty and no sender is
\* left
Recv ==
    /\ pc = "recv"
    /\ IF queue # <<>>
       THEN \E d \in {Dequeue(queue)} :
               /\ queue' = d.rest
               /\ dequeued' = Append(dequeued, d.command.seq)
               /\ MatchCommand(d.command.command)
       ELSE /\ SenderCount = 0
            /\ Break("closed")
            /\ UNCHANGED <<queue, dequeued>>
    /\ UNCHANGED <<dbus_path, calls, clients, enqueued, last_write>>

\* The place in the translated batch of the event that is written next
BatchIndex == Len(translated) - Len(pending) + 1

\* What a write leaves behind
WriteRecord(r) ==
    Some([n |-> Len(dequeued), idx |-> BatchIndex, event |-> Head(pending),
          path |-> dbus_path.some, outcome |-> r.outcome,
          emitted |-> Len(r.emitted)])

\* The calls of a write, with the command, the place in its batch and the
\* event that was written
Tagged(emitted) ==
    [i \in 1..Len(emitted) |->
        [cmd |-> Len(dequeued), idx |-> BatchIndex, event |-> Head(pending),
         call |-> emitted[i]]]

\* WriteNext that undoes the flags of the command when the emission fails
WriteNext_RollsBack(fault) ==
    /\ pc = "write"
    /\ \E r \in {write_dbus_event(Head(pending), dbus_path, fault)} :
          /\ calls' = calls \o Tagged(r.emitted)
          /\ last_write' = WriteRecord(r)
          /\ IF r.outcome = "err"
             THEN /\ pc' = "done" /\ run_result' = "err" /\ exit_on' = "error"
                  /\ state' = samples[1].before
                  /\ UNCHANGED <<pending, translated, samples, last_above, last_emitted>>
             ELSE /\ pending' = Tail(pending)
                  /\ pc' = (IF Tail(pending) = <<>> THEN "recv" ELSE "write")
                  /\ UNCHANGED <<run_result, exit_on, dbusVars>>
    /\ UNCHANGED <<dbus_path, queue, removal, clients, enqueued, dequeued>>

\* WriteNext that records the error and goes on with the next event
WriteNext_KeepsGoing(fault) ==
    /\ pc = "write"
    /\ \E r \in {write_dbus_event(Head(pending), dbus_path, fault)} :
          /\ calls' = calls \o Tagged(r.emitted)
          /\ last_write' = WriteRecord(r)
          /\ run_result' = (IF r.outcome = "err" THEN "err" ELSE run_result)
          /\ exit_on' = (IF r.outcome = "err" THEN "error" ELSE exit_on)
          /\ pending' = Tail(pending)
          /\ pc' = (IF Tail(pending) = <<>> THEN "recv" ELSE "write")
    /\ UNCHANGED <<dbus_path, queue, removal, clients, enqueued, dequeued, dbusVars>>

\* for dbus_event in dbus_events { self.write_dbus_event(dbus_event).await?; }
\* one turn of the loop: an Err is returned from run at once
WriteNext(fault) ==
    /\ pc = "write"
    /\ \E r \in {write_dbus_event(Head(pending), dbus_path, fault)} :
          /\ calls' = calls \o Tagged(r.emitted)
          /\ last_write' = WriteRecord(r)
          /\ IF r.outcome = "err"
             THEN /\ pc' = "done" /\ run_result' = "err" /\ exit_on' = "error"
                  /\ UNCHANGED pending
             ELSE /\ pending' = Tail(pending)
                  /\ pc' = (IF Tail(pending) = <<>> THEN "recv" ELSE "write")
                  /\ UNCHANGED <<run_result, exit_on>>
    /\ UNCHANGED <<dbus_path, queue, removal, clients, enqueued, dequeued, dbusVars>>

\* The device, its clients and its run loop
SpecRunInit == DBusInit /\ RunNew /\ LegoIdle /\ OpineoIdle

SpecRunNext ==
    \/ ListenOnDBus /\ UNCHANGED <<legoVars, opineoVars>>
    \/ Run /\ UNCHANGED <<legoVars, opineoVars>>
    \/ \E command \in RunCommands : Enqueue(command) /\ UNCHANGED <<legoVars, opineoVars>>
    \/ DropClient /\ UNCHANGED <<legoVars, opineoVars>>
    \/ Recv /\ UNCHANGED <<legoVars, opineoVars>>
    \/ \E fault \in Faults : WriteNext(fault) /\ UNCHANGED <<legoVars, opineoVars>>

SpecRun == SpecRunInit /\ [][SpecRunNext]_vars

\* The touchpad source being polled
SpecOpineoInit == OpineoNew /\ DBusInit /\ LegoIdle /\ RunNew

SpecOpineoNext ==
    \E evts \in TouchEventLists : OpineoPoll(evts) /\ UNCHANGED <<dbusVars, legoVars, runVars>>

SpecOpineo == SpecOpineoInit /\ [][SpecOpineoNext]_vars

(***************************************************************************)
(*                             Specifications                              *)
(***************************************************************************)

SpecDBusInit == DBusInit /\ LegoIdle /\ OpineoIdle /\ RunNew

\* The lists DBusEvent::from_native_event returns for a gamepad axis event
AxisDerivedLists == SeqsUpTo(DerivedEvents, MaxDerived)

\* The lists it returns for an event of another capability (a button bound
\* to Left, a button bound to Guide)
OtherDerivedLists == SeqsUpTo(ButtonEvents, MaxDerived)

SpecDBusNext ==
    \/ \E derived \in AxisDerivedLists :
            WriteEvent(TRUE, derived) /\ UNCHANGED <<legoVars, opineoVars, runVars>>
    \/ \E derived \in OtherDerivedLists :
            WriteEvent(FALSE, derived) /\ UNCHANGED <<legoVars, opineoVars, runVars>>

SpecDBus == SpecDBusInit /\ [][SpecDBusNext]_vars

\* The driver polling the device
SpecPollInit == LegoIdle /\ DBusInit /\ OpineoIdle /\ RunNew

SpecPollNext ==
    \/ \E report_id \in ReportIds, report_size \in DeclaredSizes,
          bytes_read \in BytesRead :
            Poll(report_id, report_size, bytes_read)
                /\ UNCHANGED <<dbusVars, opineoVars, runVars>>
    \/ PollReadError /\ UNCHANGED <<dbusVars, opineoVars, runVars>>

SpecPoll == SpecPollInit /\ [][SpecPollNext]_vars

\* translate_xinput on a stored report and a previous report (or none)
SpecTranslateInit ==
    /\ DBusInit
    /\ dinputl_state = None /\ dinputr_state = None /\ keyboard_state = None
    /\ mouse_state = None /\ touchpad_state = None
    /\ xinput_state \in {Some(r) : r \in {ZeroReport, BusyReport}}
    /\ old_state \in {None} \cup {Some(r) : r \in Near(xinput_state.v, MaxChanged)}
    /\ events = <<>> /\ result = "none" /\ family = "xinput"
    /\ polls = 0 /\ phase = "ready" /\ packet = None
    /\ last_decoded = [f \in Families |-> IF f = "xinput" THEN xinput_state ELSE None]
    /\ OpineoIdle /\ RunNew

SpecTranslateNext == Translate /\ UNCHANGED <<dbusVars, opineoVars, runVars>>

SpecTranslate == SpecTranslateInit /\ [][SpecTranslateNext]_vars

(***************************************************************************)
(*                    Properties of the threshold logic                    *)
(***************************************************************************)

RECURSIVE Flatten(_)
Flatten(ss) == IF ss = <<>> THEN <<>> ELSE Head(ss) \o Flatten(Tail(ss))

\* The samples of the last call that were derived from an axis event and
\* carry direction d
AxisSampleOf(s, d) == s.axis /\ s.event.action = d

\* C1: for each direction d and every axis-derived sample of magnitude m, the
\* pressed flag of d changes iff (d is released and m > threshold) or (d is
\* pressed and m < threshold); an event for d is emitted iff the flag
\* changes, with value 1.0 on a press and 0.0 on a release; a sample at the
\* threshold emits nothing and changes nothing. The events returned are the
\* emitted ones, in order, and the device state is the state after the last
\* sample.
C1_ThresholdCrossing ==
    /\ translated = Flatten([i \in 1..Len(samples) |-> samples[i].out])
    /\ samples # <<>> => state = samples[Len(samples)].after
    /\ \A i \in 1..Len(samples) - 1 : samples[i + 1].before = samples[i].after
    /\ \A i \in 1..Len(samples) : \A d \in Directions :
          AxisSampleOf(samples[i], d) =>
            LET s == samples[i]
                m == s.event.value.f
                was == Pressed(s.before, d)
                is == Pressed(s.after, d)
            IN /\ (is # was) <=> ((~was /\ m > AXIS_THRESHOLD) \/ (was /\ m < AXIS_THRESHOLD))
               /\ (s.out # <<>>) <=> (is # was)
               /\ s.out # <<>> =>
                     s.out = <<[action |-> d,
                                value |-> Float(IF was THEN 0 ELSE 100)]>>
               /\ m = AXIS_THRESHOLD => s.out = <<>> /\ s.after = s.before

\* C1 witness: a sample at the threshold arrived for a pressed direction and
\* for a released one after a press and a release were emitted
C1_Witness ==
    /\ \E i \in 1..Len(samples) :
          /\ AxisSampleOf(samples[i], "Left")
          /\ samples[i].event.value.f = AXIS_THRESHOLD
          /\ samples[i].before.pressed_left
    /\ last_emitted["Right"] = 0

\* C2: the pressed flag of direction d is true iff, among the samples for d
\* strictly above or strictly below the threshold, the most recent one was
\* strictly above (false when there was none)
C2_FlagIsLastSide ==
    \A d \in Directions : Pressed(state, d) <=> last_above[d]

\* C2 witness: Up was pressed and released again, then got a sample at the
\* threshold, while Down is pressed
C2_Witness ==
    /\ last_emitted["Up"] = 0 /\ ~state.pressed_up /\ ~last_above["Up"]
    /\ \E i \in 1..Len(samples) :
          AxisSampleOf(samples[i], "Up") /\ samples[i].event.value.f = AXIS_THRESHOLD
    /\ state.pressed_down

\* The values the threshold logic emitted for direction d in a call
RECURSIVE EmittedFor(_, _)
EmittedFor(d, smp) ==
    IF smp = <<>> THEN <<>>
    ELSE (IF AxisSampleOf(Head(smp), d) /\ Head(smp).out # <<>>
          THEN <<Head(smp).out[1].value.f>> ELSE <<>>) \o EmittedFor(d, Tail(smp))

\* seq continues the alternation 1.0, 0.0, 1.0, ... after `last` (-1: nothing
\* emitted yet)
Alternates(last, seq) ==
    /\ \A i \in 1..Len(seq) : seq[i] \in {0, 100}
    /\ seq # <<>> => seq[1] = (IF last = 100 THEN 0 ELSE 100)
    /\ \A i \in 1..Len(seq) - 1 : seq[i + 1] # seq[i]

\* C3: the events emitted for one direction from axis-derived samples
\* alternate 1.0, 0.0, 1.0, ... beginning with 1.0: every call continues the
\* alternation where the previous emission for that direction left it
C3_Alternation ==
    [][\A d \in Directions :
          /\ Alternates(last_emitted[d], EmittedFor(d, samples'))
          /\ last_emitted[d] \in {-1, 0, 100}]_vars

\* C3 witness: Down has emitted a press and a release and has then received
\* a sample below the threshold, which emitted nothing
C3_Witness ==
    /\ last_emitted["Down"] = 0
    /\ \E i \in 1..Len(samples) :
          /\ AxisSampleOf(samples[i], "Down")
          /\ samples[i].event.value.f < AXIS_THRESHOLD
          /\ ~samples[i].before.pressed_down
          /\ samples[i].out = <<>>

(***************************************************************************)
(*                 Properties of the lego driver's diffing                 *)
(***************************************************************************)

\* translate_xinput has run on the stored gamepad report: in a poll that
\* decoded a gamepad report, or applied to a stored and a previous report
TranslatedXInput ==
    \/ phase = "done"
    \/ phase = "driver" /\ result = "ok" /\ family = "xinput"

Cur == xinput_state.v
Old == old_state.v

\* The places in the returned list of the events of a kind and name
EventsOf(kind, name) ==
    {j \in 1..Len(events) : events[j].kind = kind /\ events[j].name = name}

GatedKinds == {"Button", "Axis", "Trigger"}

\* The stick and touchpad axes with the AxisEvent each pair is reported as
AxisTable ==
    {<<"touch_x", "touch_y", "Touchpad">>, <<"l_stick_x", "l_stick_y", "LStick">>,
     <<"r_stick_x", "r_stick_y", "RStick">>}

LeftAccel == Accelerometer("LeftAccelerometer", Cur.left_accel_0, Cur.left_accel_1)
RightAccel == Accelerometer("RightAccelerometer", Cur.right_accel_0, Cur.right_accel_1)

\* C4: when a previous report exists, translate emits a Button event for a
\* boolean field iff the field differs between the previous and the current
\* stored report; the event carries the current value; at most one Button
\* event per field per call
C4_ButtonIffChanged ==
    (TranslatedXInput /\ old_state.some) =>
        /\ \A i \in 1..Len(ButtonTable) :
              LET f == ButtonTable[i][1]
                  hits == EventsOf("Button", ButtonTable[i][2])
              IN /\ Cardinality(hits) = (IF Cur[f] # Old[f] THEN 1 ELSE 0)
                 /\ \A j \in hits : events[j].pressed = Cur[f]
        /\ \A j \in 1..Len(events) :
              events[j].kind = "Button" =>
                  \E i \in 1..Len(ButtonTable) : events[j].name = ButtonTable[i][2]

\* C4 witness: a call in which A and ThumbR both changed since the previous
\* report and nothing else did
C4_Witness ==
    /\ phase = "done" /\ old_state.some
    /\ Old.a # Cur.a /\ Old.thumb_r # Cur.thumb_r
    /\ Len(events) = 4

\* C5: for the touchpad, the left stick and the right stick, when a previous
\* report exists, translate emits exactly one Axis event carrying the
\* current X and the current Y if either component differs from the
\* previous report, and no Axis event for the pair if both are equal
C5_PairedAxis ==
    (TranslatedXInput /\ old_state.some) =>
        /\ \A p \in AxisTable :
              LET hits == EventsOf("Axis", p[3])
              IN /\ Cardinality(hits) =
                       (IF Cur[p[1]] # Old[p[1]] \/ Cur[p[2]] # Old[p[2]] THEN 1 ELSE 0)
                 /\ \A j \in hits :
                       events[j] = Axis(p[3], Cur[p[1]], Cur[p[2]])
        /\ \A j \in 1..Len(events) :
              events[j].kind = "Axis" => \E p \in AxisTable : events[j].name = p[3]

\* C5 witness: only the Y component of the left stick changed, and both
\* components of the touchpad
C5_Witness ==
    /\ phase = "done" /\ old_state.some
    /\ Old.l_stick_x = Cur.l_stick_x /\ Old.l_stick_y # Cur.l_stick_y
    /\ Old.touch_x # Cur.touch_x /\ Old.touch_y # Cur.touch_y
    /\ Cardinality({j \in 1..Len(events) : events[j].kind = "Axis"}) = 2

\* C6: the left and the right accelerometer sample are emitted on every
\* successful gamepad poll, the first observation of the family included
C6_AccelEveryPoll ==
    (phase = "driver" /\ result = "ok" /\ family = "xinput") =>
        /\ \E j \in 1..Len(events) : events[j] = LeftAccel
        /\ \E j \in 1..Len(events) : events[j] = RightAccel

\* C7: on the first successful decode of a family (its slot was absent
\* before) the diff step emits no Button, Axis or Trigger event, whatever
\* the fields of that first report
C7_FirstDecodeNoGatedEvent ==
    (phase = "driver" /\ result = "ok" /\ family # "none" /\ ~old_state.some) =>
        \A j \in 1..Len(events) : events[j].kind \notin GatedKinds

\* C7 witness: the first gamepad report decoded has every button held and
\* every axis off its rest value, after a keyboard report was decoded
C7_Witness ==
    /\ phase = "driver" /\ result = "ok" /\ family = "xinput"
    /\ ~old_state.some /\ xinput_state = Some(BusyReport)
    /\ keyboard_state.some

\* The slot of the family whose handler ran in the last poll
SlotOf(fam) ==
    CASE fam = "dinputl" -> dinputl_state
      [] fam = "dinputr" -> dinputr_state
      [] fam = "keyboard" -> keyboard_state
      [] fam = "mouse" -> mouse_state
      [] fam = "touchpad" -> touchpad_state
      [] fam = "xinput" -> xinput_state

\* The last poll decoded a report equal to the one decoded before it for the
\* same family
SameReportTwice ==
    /\ phase = "driver" /\ result = "ok" /\ family # "none"
    /\ old_state.some /\ old_state = SlotOf(family)

\* C8 as stated: for every family, when the same decoded report is observed
\* twice in a row, the second call yields an empty event list
C8_SameReportNoEvents ==
    SameReportTwice => events = <<>>

\* C8 amended: the second call yields no Button, Axis or Trigger event; the
\* list is empty for the DInput, keyboard, mouse and touchpad families, and
\* for the gamepad family it is exactly the left and the right accelerometer
\* sample of the repeated report
C8_SameReportOnlyAccel ==
    SameReportTwice =>
        events = (IF family = "xinput" THEN <<LeftAccel, RightAccel>> ELSE <<>>)

\* C8 witness: the third poll repeats a gamepad packet with A held
C8_Witness ==
    /\ SameReportTwice /\ family = "xinput" /\ polls = 3
    /\ Cur.a /\ ~Cur.b

\* The previous and the current gamepad report differ in the boolean field f
\* and in nothing else
OnlyBooleanDiffers(f) ==
    /\ Cur[f] # Old[f]
    /\ Cur = [Old EXCEPT ![f] = Cur[f]]

ExpectedSizes(report_id) ==
    CASE report_id \in {DINPUTLEFT_DATA, DINPUTRIGHT_DATA} -> {DINPUT_PACKET_SIZE}
      [] report_id = KEYBOARD_TOUCH_DATA -> {KEYBOARD_PACKET_SIZE, TOUCHPAD_PACKET_SIZE}
      [] report_id \in {MOUSE_DATA, MOUSEFPS_DATA} -> {MOUSE_PACKET_SIZE}
      [] report_id = XINPUT_DATA -> {XINPUT_PACKET_SIZE}
      [] OTHER -> {}

\* The last poll received a packet with a recognized report id whose
\* declared size or number of bytes read is not the family's size
MalformedPacket ==
    /\ phase = "driver" /\ packet.some
    /\ ExpectedSizes(packet.v.report_id) # {}
    /\ ~\E e \in ExpectedSizes(packet.v.report_id) :
            packet.v.report_size = e /\ packet.v.bytes_read = e

\* C10: for every packet with a recognized report id whose declared size
\* (any value of byte 1) or number of bytes read differs from the family's
\* size, poll fails with an error result: it neither decodes the packet nor
\* ends in another way
C10_MalformedIsError ==
    MalformedPacket => result = "err" /\ family = "none"

(***************************************************************************)
(*                Properties of the lego driver's polling                  *)
(***************************************************************************)

\* C11: a poll that fails (a malformed packet, a transport read error)
\* yields no events and leaves every state slot as it was, so the polls
\* after it diff against the same reports as if it had not been made
C11_FailedPollFrame ==
    [][(polls' = polls + 1 /\ result' \in {"err", "panic"}) =>
            (events' = <<>> /\ slots' = slots)]_vars

\* C11 witness: the third poll failed on a malformed packet after a keyboard
\* and a gamepad report were decoded, and both are still stored
C11_Witness ==
    /\ polls = 3 /\ result = "err" /\ MalformedPacket
    /\ xinput_state = Some(BusyReport) /\ keyboard_state.some
    /\ events = <<>>

\* C12: for every packet whose report id is not a recognized one, poll
\* returns success with an empty event list and no handler runs, whatever
\* the declared size and the number of bytes read
C12_UnknownIdIsOk ==
    (phase = "driver" /\ packet.some /\ ExpectedSizes(packet.v.report_id) = {}) =>
        (result = "ok" /\ events = <<>> /\ family = "none")

\* The slots of the families other than fam are left as they were
OnlyChanges(fam) ==
    /\ fam # "dinputl" => dinputl_state' = dinputl_state
    /\ fam # "dinputr" => dinputr_state' = dinputr_state
    /\ fam # "keyboard" => keyboard_state' = keyboard_state
    /\ fam # "mouse" => mouse_state' = mouse_state
    /\ fam # "touchpad" => touchpad_state' = touchpad_state
    /\ fam # "xinput" => xinput_state' = xinput_state

\* C13: a packet with the keyboard/touch report id is decoded as a keyboard
\* report iff declared size and bytes read are both 15, as a touchpad report
\* iff both are 21, and is a malformed-packet error in every other
\* combination; a keyboard packet changes only the keyboard slot and a
\* touchpad packet only the touchpad slot
C13_KeyboardTouchBySize ==
    [][(polls' = polls + 1 /\ packet'.some
            /\ packet'.v.report_id = KEYBOARD_TOUCH_DATA) =>
         LET size == packet'.v.report_size
             read == packet'.v.bytes_read
             kbd == size = KEYBOARD_PACKET_SIZE /\ read = KEYBOARD_PACKET_SIZE
             tch == size = TOUCHPAD_PACKET_SIZE /\ read = TOUCHPAD_PACKET_SIZE
         IN /\ (result' = "ok" /\ family' = "keyboard") <=> kbd
            /\ (result' = "ok" /\ family' = "touchpad") <=> tch
            /\ (~kbd /\ ~tch) => result' = "err"
            /\ kbd => OnlyChanges("keyboard")
            /\ tch => OnlyChanges("touchpad")]_vars

\* The slots as a function of the family
SlotFn == [f \in Families |-> SlotOf(f)]

\* C14: the slot of a family is absent iff no report of the family was
\* decoded, and otherwise holds the report of its most recent successful
\* decode; the value update returns, which the new report is diffed
\* against, is the report of the family's preceding successful decode
C14_SlotIsLastDecode ==
    [][/\ SlotFn' = last_decoded'
       /\ (polls' = polls + 1 /\ result' = "ok" /\ family' # "none") =>
             /\ old_state' = last_decoded[family']
             /\ SlotFn'[family'] = Some(last_decoded'[family'].v)
             /\ last_decoded'[family'].some]_vars

\* C14 witness: a mouse report, then two different gamepad reports were
\* decoded: the second was diffed against the first
C14_Witness ==
    /\ polls = 3 /\ result = "ok" /\ family = "xinput"
    /\ old_state = Some(BusyReport) /\ xinput_state = Some(ZeroReport)
    /\ mouse_state.some /\ ~keyboard_state.some

\* The place of an event's kind in the order of the categories
CategoryRank(e) ==
    CASE e.kind = "Button" -> 1
      [] e.kind = "Axis" -> 2
      [] e.kind = "Trigger" -> 3
      [] e.kind = "Accelerometer" -> 4

\* The place of a button in the order in which translate tests the fields
ButtonIndex(name) ==
    CHOOSE i \in 1..Len(ButtonTable) : ButtonTable[i][2] = name

TriggerTable ==
    {<<"a_trigger_l", "ATriggerL">>, <<"a_trigger_r", "ATriggerR">>,
     <<"mouse_z", "MouseWheel">>}

\* C16: for the left analog trigger, the right analog trigger and the mouse
\* wheel, when a previous report exists, translate emits a Trigger event
\* carrying the current value iff the value differs from the previous
\* report
C16_TriggerIffChanged ==
    (TranslatedXInput /\ old_state.some) =>
        /\ \A t \in TriggerTable :
              LET hits == EventsOf("Trigger", t[2])
              IN /\ Cardinality(hits) = (IF Cur[t[1]] # Old[t[1]] THEN 1 ELSE 0)
                 /\ \A j \in hits : events[j] = Trigger(t[2], Cur[t[1]])
        /\ \A j \in 1..Len(events) :
              events[j].kind = "Trigger" => \E t \in TriggerTable : events[j].name = t[2]

\* C16 witness: the mouse wheel and the right trigger changed, the left
\* trigger did not
C16_Witness ==
    /\ phase = "done" /\ old_state.some
    /\ Old.mouse_z # Cur.mouse_z /\ Old.a_trigger_r # Cur.a_trigger_r
    /\ Old.a_trigger_l = Cur.a_trigger_l
    /\ Cardinality({j \in 1..Len(events) : events[j].kind = "Trigger"}) = 2

(***************************************************************************)
(*               Frame properties of the threshold logic                   *)
(***************************************************************************)

\* C17: every derived event of a native event that is not a gamepad axis
\* event, and every axis-derived event whose action is not Left, Right, Up
\* or Down, is returned with its value unmodified and changes no pressed
\* flag; the returned list is these and the emitted threshold events, in
\* order
C17_PassThrough ==
    /\ Len(translated) = Len(Flatten([i \in 1..Len(samples) |-> samples[i].out]))
    /\ \A i \in 1..Len(samples) :
          (~samples[i].axis \/ samples[i].event.action \notin Directions) =>
              /\ samples[i].out = <<samples[i].event>>
              /\ samples[i].after = samples[i].before
              /\ \E j \in 1..Len(translated) : translated[j] = samples[i].event

\* C17 witness: a button bound to Left is passed through while the axis
\* holds Right pressed and Left released
C17_Witness ==
    /\ samples # <<>>
    /\ ~samples[1].axis /\ samples[1].event.action = "Left"
    /\ state.pressed_right /\ ~state.pressed_left
    /\ translated = <<samples[1].event>>

\* C18: the four pressed flags are false when the device is created, and
\* handling an axis-derived event of direction d leaves the flags of the
\* other three directions unchanged
C18_IndependentFlags ==
    /\ state = DefaultState
    /\ [][samples' # <<>> =>
            /\ samples'[1].before = state
            /\ state' = samples'[Len(samples')].after
            /\ \A i \in 1..Len(samples') - 1 :
                  samples'[i + 1].before = samples'[i].after
            /\ \A i \in 1..Len(samples') : \A d \in Directions :
                  samples'[i].event.action # d =>
                      Pressed(samples'[i].after, d) = Pressed(samples'[i].before, d)]_vars

\* C18 witness: Right was pressed and released again while Left and Up
\* stayed pressed
C18_Witness ==
    /\ state.pressed_left /\ state.pressed_up
    /\ ~state.pressed_right /\ last_emitted["Right"] = 0
    /\ samples # <<>> /\ AxisSampleOf(samples[1], "Right")

(***************************************************************************)
(*                 Properties of the touch normalization                   *)
(***************************************************************************)

\* C19: for every touch event, normalize_axis_value reports X and Y as
\* absent iff is_touching is false, whatever the raw coordinates, and as
\* present iff is_touching is true; index and is_touching are copied
C19_AbsentIffNotTouching ==
    /\ Len(native_events) = Len(touch_events)
    /\ side # "Unknown" =>
          \A i \in 1..Len(native_events) :
              LET v == native_events[i].value
                  e == touch_events[i]
              IN /\ v.kind = "Touch"
                 /\ v.x.some <=> e.is_touching
                 /\ v.y.some <=> e.is_touching
                 /\ v.index = e.index
                 /\ v.is_touching = e.is_touching

\* C19 witness: the left pad reported a lifted finger with raw coordinates
\* beyond the origin, and X and Y are absent
C19_Witness ==
    /\ side = "Left" /\ Len(native_events) = 1
    /\ ~touch_events[1].is_touching
    /\ touch_events[1].x = 512 /\ touch_events[1].y = 0
    /\ native_events[1].value.x = None

\* C20: for every raw coordinate the report field can carry, values above
\* the pad's maximum included, the normalized X and Y of a touching event
\* lie within [0.0, 1.0], the raw value 0 giving 0.0 and the raw maximum
\* giving 1.0
C20_NormalizedInUnitRange ==
    side # "Unknown" =>
        \A i \in 1..Len(native_events) :
            touch_events[i].is_touching =>
                LET v == native_events[i].value
                    e == touch_events[i]
                IN /\ InUnitRange(v.x.v) /\ InUnitRange(v.y.v)
                   /\ e.x = 0 => v.x.v.num = 0
                   /\ e.y = 0 => v.y.v.num = 0
                   /\ e.x = PAD_X_MAX => v.x.v.num = v.x.v.den
                   /\ e.y = PAD_Y_MAX => v.y.v.num = v.y.v.den

(***************************************************************************)
(*                  Properties of the touchpad source                      *)
(***************************************************************************)

\* C21: every event the touchpad source returns from poll carries a
\* capability that is in the list get_capabilities returns, for the sides
\* Left, Right and Unknown
C21_EventsWithinCapabilities ==
    \A i \in 1..Len(native_events) :
        \E k \in 1..Len(get_capabilities) :
            native_events[i].capability = get_capabilities[k]

(***************************************************************************)
(*                Properties of the run loop and the queue                 *)
(***************************************************************************)

\* The last step was a call of write_dbus_event
Wrote == last_write' # last_write

\* C22: an event whose action is none causes no emission and no error:
\* write_dbus_event returns Ok without emitting, with or without a DBus
\* path, and the loop goes on with the next event of the batch
C22_NoneIsSkipped ==
    [][(pc = "write" /\ Head(pending).action = "None" /\ Wrote) =>
            /\ last_write'.v.outcome = "ok" /\ last_write'.v.emitted = 0
            /\ calls' = calls /\ run_result' = "running"
            /\ pending' = Tail(pending)
            /\ pc' = (IF pending' = <<>> THEN "recv" ELSE "write")]_vars

\* C22 witness: with no DBus path an event with action none was skipped and
\* the next event of the batch is about to be written
C22_Witness ==
    /\ ~dbus_path.some /\ last_write.some
    /\ last_write.v.event.action = "None" /\ last_write.v.outcome = "ok"
    /\ pc = "write" /\ pending # <<>> /\ Head(pending).action = "Guide"

\* C23: writing an event whose action is not none while no DBus path is
\* registered returns an error and emits nothing, and run returns the error
C23_NoPathIsError ==
    (last_write.some /\ last_write.v.event.action # "None" /\ ~last_write.v.path) =>
        /\ last_write.v.outcome = "err" /\ last_write.v.emitted = 0
        /\ calls = <<>>
        /\ pc = "done" /\ run_result = "err"

\* C23 witness: run was started without listen_on_dbus and returned the
\* error of the first event that is not none, after skipping a none event
C23_Witness ==
    /\ ~dbus_path.some /\ run_result = "err" /\ pc = "done"
    /\ last_write.v.event = DBusEvent("Guide", BoolValue(TRUE))
    /\ last_write.v.idx = 2

\* C24: with a DBus path registered, every event whose action is not none
\* and whose write completes results in exactly one emission, whatever the
\* kind of its value
C24_OneEmissionPerEvent ==
    (last_write.some /\ last_write.v.event.action # "None" /\ last_write.v.path
        /\ last_write.v.outcome = "ok") =>
            last_write.v.emitted = 1

\* C25: when an emission fails, the pressed flags are the ones the translate
\* step of that command left: nothing is rolled back
C25_NoRollback ==
    run_result = "err" =>
        /\ samples # <<>>
        /\ state = samples[Len(samples)].after
        /\ \A d \in Directions : Pressed(state, d) <=> last_above[d]

\* C25 witness: the command that pressed Left and Up failed on its first
\* event, and both flags are set
C25_Witness ==
    /\ run_result = "err" /\ last_write.v.idx = 1 /\ dbus_path.some
    /\ ~samples[1].before.pressed_left /\ state.pressed_left /\ state.pressed_up

\* The numbers of the commands of a sequence of the channel
SeqNumbers(q) == [i \in 1..Len(q) |-> q[i].seq]

\* C26: the channel never holds more commands than its capacity, a send
\* completes only when there is room, and no command sent is lost: the
\* commands sent are the ones received followed by the ones in the channel
C26_BoundedNoLoss ==
    /\ Len(queue) <= QueueCapacity
    /\ SeqNumbers(enqueued) = dequeued \o SeqNumbers(queue)
    /\ \A i \in 1..Len(queue) : queue[i] = enqueued[queue[i].seq]

\* C26 witness: the channel is full while the loop is writing the events of
\* a command; one more command was sent before
C26_Witness ==
    /\ Len(queue) = QueueCapacity /\ pc = "write"
    /\ Len(enqueued) = QueueCapacity + 1

\* a call precedes another: an earlier command, or the same command and an
\* earlier place in its batch
Precedes(a, b) == a.cmd < b.cmd \/ (a.cmd = b.cmd /\ a.idx < b.idx)

C28_Stop ==
    /\ [](exit_on = "Stop" =>
            /\ pc = "done" /\ run_result = "ok" /\ pending = <<>>
            /\ removal = dbus_path.some
            /\ enqueued[Len(dequeued)].command.type = "Stop"
            /\ \A i \in 1..Len(calls) : calls[i].cmd < Len(dequeued))
    /\ [][exit_on = "Stop" =>
            /\ dequeued' = dequeued /\ calls' = calls
            /\ pc' = pc /\ run_result' = run_result]_vars

\* C28 witness: Stop was received after a command whose events were
\* emitted; a command sent after Stop stays in the channel
C28_Witness ==
    /\ exit_on = "Stop" /\ removal /\ Len(dequeued) = 2
    /\ calls # <<>> /\ queue # <<>>

\* C29: run ends only on a Stop command or on a failed emission; with every
\* client handle dropped and the channel empty the loop keeps waiting, since
\* the device holds a sender itself
C29_EndsOnlyOnStopOrError ==
    /\ [](pc = "done" <=> exit_on \in {"Stop", "error"})
    /\ [](exit_on # "closed")
    /\ [][(pc = "recv" /\ queue = <<>> /\ clients = 0) =>
            (pc' = "recv" /\ run_result' = "running")]_vars

\* C29 witness: the loop has processed a command, the last client handle is
\* dropped, the channel is empty and run has not returned
C29_Witness ==
    /\ pc = "recv" /\ queue = <<>> /\ clients = 0
    /\ dequeued # <<>> /\ run_result = "running"

\* C30: if an emission fails, run returns the error at once: the remaining
\* events of the batch are not emitted, no later command is received and
\* the removal of the DBus interface is not spawned
C30_ErrorEndsRun ==
    /\ [](run_result = "err" =>
            /\ pc = "done" /\ exit_on = "error" /\ ~removal
            /\ last_write.v.outcome = "err"
            /\ last_write.v.n = Len(dequeued)
            /\ Len(pending) = Len(translated) - last_write.v.idx + 1
            /\ \A i \in 1..Len(calls) :
                  Precedes(calls[i], [cmd |-> last_write.v.n, idx |-> last_write.v.idx]))
    /\ [][run_result = "err" =>
            /\ dequeued' = dequeued /\ calls' = calls /\ pending' = pending
            /\ removal' = removal /\ run_result' = "err"]_vars

\* C30 witness: the first event of a batch of two failed with a path
\* registered, after an earlier command was emitted; the second event and a
\* queued command are left
C30_Witness ==
    /\ run_result = "err" /\ dbus_path.some
    /\ Len(pending) = 2 /\ last_write.v.idx = 1
    /\ calls # <<>> /\ queue # <<>>

\* The event a call was emitted for
EventOf(c) == c.event

\* The f64 emitted for an optional field: its value if present
EmitsField(opt, emitted, default) ==
    IF opt.some THEN emitted = opt.v ELSE SameFloat(emitted, default)

\* Two touch_event calls carry the same payload
SamePayload(a, b) ==
    /\ a.signal = b.signal /\ a.action = b.action /\ a.index = b.index
    /\ a.is_touching = b.is_touching
    /\ SameFloat(a.pressure, b.pressure)
    /\ SameFloat(a.x, b.x) /\ SameFloat(a.y, b.y)

\* C31: a touch payload is emitted with 0.0 for an absent x or y and 1.0
\* for an absent pressure, and with the value of every field that is
\* present; hence a lifted-finger event with absent coordinates and one
\* with the coordinates (0.0, 0.0), otherwise alike, are emitted as the
\* same payload
C31_AbsentTouchDefaults ==
    /\ \A i \in 1..Len(calls) :
          EventOf(calls[i]).value.kind = "Touch" =>
              /\ calls[i].call.signal = "touch_event"
              /\ calls[i].call.index = EventOf(calls[i]).value.index
              /\ calls[i].call.is_touching = EventOf(calls[i]).value.is_touching
              /\ EmitsField(EventOf(calls[i]).value.x, calls[i].call.x, Ratio(0, 1))
              /\ EmitsField(EventOf(calls[i]).value.y, calls[i].call.y, Ratio(0, 1))
              /\ EmitsField(EventOf(calls[i]).value.pressure, calls[i].call.pressure,
                            Ratio(1, 1))
    /\ \A i, j \in 1..Len(calls) :
          (EventOf(calls[i]) = DBusEvent("Touch", TouchUpValue)
              /\ EventOf(calls[j]) = DBusEvent("Touch", TouchUpZeroValue)) =>
                  SamePayload(calls[i].call, calls[j].call)

\* C31 witness: a lifted-finger event with absent coordinates and pressure,
\* one with the coordinates (0.0, 0.0), and one with only x absent have all
\* been emitted
C31_Witness ==
    /\ \E i \in 1..Len(calls) : EventOf(calls[i]) = DBusEvent("Touch", TouchUpValue)
    /\ \E j \in 1..Len(calls) : EventOf(calls[j]) = DBusEvent("Touch", TouchUpZeroValue)
    /\ \E k \in 1..Len(calls) :
          /\ EventOf(calls[k]) = DBusEvent("Touch", TouchPartialValue)
          /\ calls[k].call.x = Ratio(0, 1)
          /\ calls[k].call.y = Ratio(512, PAD_Y_MAX)

====
